---- MODULE Spec2Model ----
(***************************************************************************)
(* A model of the ramfs demangler of ifs_layeredfs                         *)
(* (src/layeredfs/ramfs_demangler.cpp): the four forward maps, the cleanup *)
(* ledger, and the four entry points on_fs_open, on_fs_read, on_fs_mount   *)
(* and demangle_if_possible.                                               *)
(*                                                                         *)
(* A C string is a sequence of one-character strings.  A nullable          *)
(* const char* and an optional<string> are sequences of length 0 (NULL,    *)
(* nullopt) or 1 (the value).  A hash map or trie is a function whose      *)
(* DOMAIN is the set of keys present.                                      *)
(***************************************************************************)
EXTENDS Integers, Sequences, FiniteSets, TLC

(***************************************************************************)
(* Bounds of the model.                                                    *)
(***************************************************************************)
\* on_fs_open, on_fs_read and on_fs_mount calls in one behaviour
MaxEvents == 6
\* well-formed lifecycles driven per path in SpecLifecycle
MaxLifecycles == 2

(***************************************************************************)
(* Strings.                                                                *)
(***************************************************************************)
Str_ifs == <<".", "i", "f", "s">>
Str_base == <<"b", "a", "s", "e", "=">>
Str_slash == <<"/">>

IsPrefix(k, x) ==
    /\ Len(k) <= Len(x)
    /\ SubSeq(x, 1, Len(k)) = k

\* the suffix of x from (1-based) position i on
Tail_from(x, i) == SubSeq(x, i, Len(x))

\* utils: string_ends_with(str, suffix)
string_ends_with(str, suffix) ==
    /\ Len(suffix) <= Len(str)
    /\ SubSeq(str, Len(str) - Len(suffix) + 1, Len(str)) = suffix

\* std::string::find / strstr: the least position at which sub occurs in
\* str, 0 when it does not occur
str_find(str, sub) ==
    LET hits == {i \in 1..(Len(str) - Len(sub) + 1) :
                    SubSeq(str, i, i + Len(sub) - 1) = sub}
    IN  IF hits = {} THEN 0
        ELSE CHOOSE i \in hits : \A j \in hits : i <= j

\* utils: string_replace(str, from, to): the occurrence of from found in
\* str is replaced by to, the rest of str is kept
string_replace(str, from, to) ==
    LET pos == str_find(str, from)
    IN  IF pos = 0 THEN str
        ELSE SubSeq(str, 1, pos - 1) \o to \o Tail_from(str, pos + Len(from))

(***************************************************************************)
(* strtoull(s, NULL, 0): optional white space, optional sign, the base     *)
(* read from the prefix (0x: 16, 0: 8, otherwise 10), then the longest     *)
(* run of digits of that base; 0 when there is no digit.  The flags of     *)
(* the model carry no '-' sign and no value that reaches the width of a    *)
(* pointer, so negation and the clamp to ULLONG_MAX are left out.          *)
(***************************************************************************)
DigitChars == <<"0", "1", "2", "3", "4", "5", "6", "7", "8", "9",
                "a", "b", "c", "d", "e", "f">>

DigitVal(c) ==
    LET lower == {i \in 1..16 : DigitChars[i] = c}
        upper == {i \in 11..16 : <<"A", "B", "C", "D", "E", "F">>[i - 10] = c}
    IN  IF lower # {} THEN (CHOOSE i \in lower : TRUE) - 1
        ELSE IF upper # {} THEN (CHOOSE i \in upper : TRUE) - 1
        ELSE 99

RECURSIVE ParseDigits(_, _, _)
ParseDigits(s, base, acc) ==
    IF s = <<>> \/ DigitVal(Head(s)) >= base THEN acc
    ELSE ParseDigits(Tail(s), base, acc * base + DigitVal(Head(s)))

RECURSIVE SkipSpace(_)
SkipSpace(s) ==
    IF s # <<>> /\ Head(s) \in {" ", "\t", "\n"} THEN SkipSpace(Tail(s)) ELSE s

strtoull(str) ==
    LET s0 == SkipSpace(str)
        s1 == IF s0 # <<>> /\ Head(s0) = "+" THEN Tail(s0) ELSE s0
        hex == /\ Len(s1) >= 3
               /\ s1[1] = "0"
               /\ s1[2] \in {"x", "X"}
               /\ DigitVal(s1[3]) < 16
    IN  IF hex THEN ParseDigits(Tail_from(s1, 3), 16, 0)
        ELSE IF s1 # <<>> /\ Head(s1) = "0" THEN ParseDigits(s1, 8, 0)
        ELSE ParseDigits(s1, 10, 0)

(***************************************************************************)
(* The engine's side: how it prints the numbers it passes in flags.        *)
(***************************************************************************)
RECURSIVE Digits(_, _)
Digits(n, base) ==
    IF n < base THEN <<DigitChars[n + 1]>>
    ELSE Digits(n \div base, base) \o <<DigitChars[(n % base) + 1]>>

\* "base=0x<hex>", what the engine's %p produces
FlagsHex(b) == Str_base \o <<"0", "x">> \o Digits(b, 16)
\* "size=8,base=<decimal>"
FlagsDec(b) == <<"s", "i", "z", "e", "=", "8", ",">> \o Str_base \o Digits(b, 10)

(***************************************************************************)
(* Inputs of the events.                                                   *)
(***************************************************************************)
PathA == <<"a">> \o Str_ifs
PathB == <<"b">> \o Str_ifs
PathOther == <<"o", ".", "b", "i", "n">>
ArchivePaths == {PathA, PathB}
OpenPaths == ArchivePaths \cup {PathOther}

FailedOpen == 0 - 1
\* the failed open and two handles the engine uses and reuses
Handles == {FailedOpen, 1, 2}

\* two buffer addresses the engine reads into
Buffers == {16, 32}

NoFlags == <<>>
FlagsNoBase == << <<"m", "o", "d", "e", "=", "r">> >>
FlagsSet ==
    {NoFlags, FlagsNoBase, <<Str_base>>}
        \cup {<<IF b = 32 THEN FlagsDec(b) ELSE FlagsHex(b)>> : b \in Buffers}

RamMountPoints == {<<"m">>}
RamFsRoots == {<<"r">>, <<"r", "/", "s">>}
ImageMountPoints == {<<"v">>, <<"v", "w">>}
FallbackRoot == <<"x">> \o Str_ifs
\* an fsroot that ends in ".ifs" and lies under the ramfs path "m/r/s"
ArchiveOnRamfs == <<"m", "/", "r", "/", "s", "/", "c">> \o Str_ifs
ImageFsRoots ==
    {<<"m", "/", "r">>, <<"m", "/", "r", "/", "s">>, FallbackRoot, <<"q">>}

\* the calls of on_fs_mount: <<mountpoint, fsroot, fstype, flags>>
MountCalls ==
    {<<m, r, "ramfs", f>> : m \in RamMountPoints, r \in RamFsRoots, f \in FlagsSet}
        \cup {<<m, r, "imagefs", NoFlags>> :
                 m \in ImageMountPoints, r \in ImageFsRoots}
        \cup {<<<<"v">>, <<"m", "/", "r">>, "imagefs", FlagsNoBase>>,
               <<<<"v">>, ArchiveOnRamfs, "imagefs", NoFlags>>,
               <<<<"v">>, <<"q">>, "nullfs", NoFlags>>}

Suffixes == {<<>>, <<"/", "f">>, <<"w", "/", "f">>, <<"/", "v">>}
\* the queries the Demangle event is called with
Queries == {<<"v", "w", "/", "f">>, <<"u", "/", "v">>}
\* every query the properties speak of
AllQueries ==
    {m \o s : m \in ImageMountPoints, s \in Suffixes}
        \cup Queries

(***************************************************************************)
(* State.                                                                  *)
(***************************************************************************)
VARIABLES
    cleanup_map,    \* original path -> file_cleanup_info_t
    open_file_map,  \* handle -> original path
    ram_load_map,   \* buffer address -> original path
    ramfs_map,      \* ramfs virtual path -> original path (trie)
    mangling_map,   \* imagefs mountpoint -> original path (trie)
    raw_path,       \* the caller's string handed to demangle_if_possible,
                    \* as the call leaves it; empty outside a call
    chain,          \* how much of the open/read/ramfs/imagefs chain the
                    \* latest events have completed, and with which inputs
    nevents,        \* on_fs_open, on_fs_read and on_fs_mount calls so far
    engine          \* the engine of SpecLifecycle: per archive path the
                    \* step of its load sequence, the loads completed and
                    \* the handle, buffer and ramfs path in use, and the
                    \* next unused identifier

tables == <<cleanup_map, open_file_map, ram_load_map, ramfs_map, mangling_map>>
vars == <<cleanup_map, open_file_map, ram_load_map, ramfs_map, mangling_map,
          raw_path, chain, nevents, engine>>

NULL == 0
nullopt == <<>>

EmptyMap == <<>>
Erase(m, k) == [x \in (DOMAIN m) \ {k} |-> m[x]]
Put(m, k, v) == [x \in (DOMAIN m) \cup {k} |-> IF x = k THEN v ELSE m[x]]

\* tsl::htrie_map::longest_prefix: the longest key that is a prefix of x,
\* as an optional (<<>> is end())
longest_prefix(m, x) ==
    LET keys == {k \in DOMAIN m : IsPrefix(k, x)}
    IN  IF keys = {} THEN <<>>
        ELSE <<CHOOSE k \in keys : \A j \in keys : Len(j) <= Len(k)>>

NoChain ==
    [stage |-> 0, path |-> <<>>, handle |-> 0, buffer |-> 0,
     ramfs_path |-> <<>>, mounted_path |-> <<>>]

EngineIdle ==
    [step |-> [p \in ArchivePaths |-> 0],
     loads |-> [p \in ArchivePaths |-> 0],
     handle |-> [p \in ArchivePaths |-> 0],
     buffer |-> [p \in ArchivePaths |-> 0],
     ramfs_path |-> [p \in ArchivePaths |-> <<>>],
     spelling |-> <<>>,
     fresh |-> 1]

Init ==
    /\ cleanup_map = EmptyMap
    /\ open_file_map = EmptyMap
    /\ ram_load_map = EmptyMap
    /\ ramfs_map = EmptyMap
    /\ mangling_map = EmptyMap
    /\ raw_path = <<>>
    /\ chain = NoChain
    /\ nevents = 0
    /\ engine = EngineIdle

(***************************************************************************)
(* ramfs_demangler_on_fs_open                                              *)
(***************************************************************************)
\* the guard of line 59 without the test of the extension
OpenAccepted_AnyPath(norm_path, open_result) ==
    ~(open_result < 0)

\* the guard of line 59 without the test of the handle
OpenAccepted_AnyHandle(norm_path, open_result) ==
    string_ends_with(norm_path, Str_ifs)

OpenAccepted(norm_path, open_result) ==
    ~(open_result < 0 \/ ~string_ends_with(norm_path, Str_ifs))

\* the retraction without the erase of the handle (line 67)
Retracted_KeepOpen(norm_path) ==
    IF norm_path \in DOMAIN cleanup_map
    THEN LET cleanup == cleanup_map[norm_path]
         IN  [open |-> open_file_map,
              ram |-> IF cleanup.buffer # NULL
                      THEN Erase(ram_load_map, cleanup.buffer)
                      ELSE ram_load_map,
              ramfs |-> IF cleanup.ramfs_path # nullopt
                        THEN Erase(ramfs_map, cleanup.ramfs_path[1])
                        ELSE ramfs_map,
              mangling |-> IF cleanup.mounted_path # nullopt
                           THEN Erase(mangling_map, cleanup.mounted_path[1])
                           ELSE mangling_map,
              cleanup |-> Erase(cleanup_map, norm_path)]
    ELSE [open |-> open_file_map, ram |-> ram_load_map, ramfs |-> ramfs_map,
          mangling |-> mangling_map, cleanup |-> cleanup_map]

\* the retraction without the erase of the mounted path (lines 74-76)
Retracted_KeepMangling(norm_path) ==
    IF norm_path \in DOMAIN cleanup_map
    THEN LET cleanup == cleanup_map[norm_path]
         IN  [open |-> Erase(open_file_map, cleanup.handle),
              ram |-> IF cleanup.buffer # NULL
                      THEN Erase(ram_load_map, cleanup.buffer)
                      ELSE ram_load_map,
              ramfs |-> IF cleanup.ramfs_path # nullopt
                        THEN Erase(ramfs_map, cleanup.ramfs_path[1])
                        ELSE ramfs_map,
              mangling |-> mangling_map,
              cleanup |-> Erase(cleanup_map, norm_path)]
    ELSE [open |-> open_file_map, ram |-> ram_load_map, ramfs |-> ramfs_map,
          mangling |-> mangling_map, cleanup |-> cleanup_map]

\* the retraction without the erase of the ramfs path (lines 71-73)
Retracted_KeepRamfs(norm_path) ==
    IF norm_path \in DOMAIN cleanup_map
    THEN LET cleanup == cleanup_map[norm_path]
         IN  [open |-> Erase(open_file_map, cleanup.handle),
              ram |-> IF cleanup.buffer # NULL
                      THEN Erase(ram_load_map, cleanup.buffer)
                      ELSE ram_load_map,
              ramfs |-> ramfs_map,
              mangling |-> IF cleanup.mounted_path # nullopt
                           THEN Erase(mangling_map, cleanup.mounted_path[1])
                           ELSE mangling_map,
              cleanup |-> Erase(cleanup_map, norm_path)]
    ELSE [open |-> open_file_map, ram |-> ram_load_map, ramfs |-> ramfs_map,
          mangling |-> mangling_map, cleanup |-> cleanup_map]

\* lines 63-78: the maps after the retraction of the existing record
Retracted(norm_path) ==
    IF norm_path \in DOMAIN cleanup_map
    THEN LET cleanup == cleanup_map[norm_path]
         IN  [open |-> Erase(open_file_map, cleanup.handle),
              ram |-> IF cleanup.buffer # NULL
                      THEN Erase(ram_load_map, cleanup.buffer)
                      ELSE ram_load_map,
              ramfs |-> IF cleanup.ramfs_path # nullopt
                        THEN Erase(ramfs_map, cleanup.ramfs_path[1])
                        ELSE ramfs_map,
              mangling |-> IF cleanup.mounted_path # nullopt
                           THEN Erase(mangling_map, cleanup.mounted_path[1])
                           ELSE mangling_map,
              cleanup |-> Erase(cleanup_map, norm_path)]
    ELSE [open |-> open_file_map, ram |-> ram_load_map, ramfs |-> ramfs_map,
          mangling |-> mangling_map, cleanup |-> cleanup_map]

\* a record that keeps the buffer of the record it replaces
FreshCleanup_KeepBuffer(norm_path, open_result) ==
    [handle |-> open_result,
     buffer |-> IF norm_path \in DOMAIN cleanup_map
                THEN cleanup_map[norm_path].buffer
                ELSE NULL,
     ramfs_path |-> nullopt, mounted_path |-> nullopt]

\* a record that keeps the handle of the record it replaces
FreshCleanup_KeepHandle(norm_path, open_result) ==
    [handle |-> IF norm_path \in DOMAIN cleanup_map
                THEN cleanup_map[norm_path].handle
                ELSE open_result,
     buffer |-> NULL, ramfs_path |-> nullopt, mounted_path |-> nullopt]

\* lines 79-84
FreshCleanup(norm_path, open_result) ==
    [handle |-> open_result, buffer |-> NULL,
     ramfs_path |-> nullopt, mounted_path |-> nullopt]

\* the open that stores a record only for a path the ledger did not hold
ramfs_demangler_on_fs_open_NoRestore(norm_path, open_result) ==
    IF ~OpenAccepted(norm_path, open_result)
    THEN UNCHANGED tables
    ELSE LET r == Retracted(norm_path)
         IN  /\ cleanup_map' =
                    IF norm_path \in DOMAIN cleanup_map
                    THEN r.cleanup
                    ELSE Put(r.cleanup, norm_path,
                             FreshCleanup(norm_path, open_result))
             /\ open_file_map' = Put(r.open, open_result, norm_path)
             /\ ram_load_map' = r.ram
             /\ ramfs_map' = r.ramfs
             /\ mangling_map' = r.mangling

ramfs_demangler_on_fs_open(norm_path, open_result) ==
    IF ~OpenAccepted(norm_path, open_result)
    THEN UNCHANGED tables
    ELSE LET r == Retracted(norm_path)
         IN  /\ cleanup_map' = Put(r.cleanup, norm_path,
                                    FreshCleanup(norm_path, open_result))
             /\ open_file_map' = Put(r.open, open_result, norm_path)
             /\ ram_load_map' = r.ram
             /\ ramfs_map' = r.ramfs
             /\ mangling_map' = r.mangling

(***************************************************************************)
(* ramfs_demangler_on_fs_read                                              *)
(***************************************************************************)
\* the Buffer Map and the ledger after on_fs_read(context, dest) in a state
\* with ledger cm, Open Map ofm and Buffer Map rlm; the read erases the
\* buffer the record held before (a line that is not in the source)
ReadInto_ErasePrevious(cm, ofm, rlm, context, dest) ==
    IF context \in DOMAIN ofm
    THEN LET path == ofm[context]
         IN  IF path \in DOMAIN cm
             THEN [ram |-> Erase(Put(rlm, dest, path), cm[path].buffer),
                   cleanup |-> [cm EXCEPT ![path].buffer = dest]]
             ELSE [ram |-> Put(rlm, dest, path), cleanup |-> cm]
    ELSE [ram |-> rlm, cleanup |-> cm]

\* the Buffer Map and the ledger after on_fs_read(context, dest) in a state
\* with ledger cm, Open Map ofm and Buffer Map rlm (lines 90-101)
ReadInto(cm, ofm, rlm, context, dest) ==
    IF context \in DOMAIN ofm
    THEN LET path == ofm[context]
         IN  [ram |-> Put(rlm, dest, path),
              cleanup |-> IF path \in DOMAIN cm
                          THEN [cm EXCEPT ![path].buffer = dest]
                          ELSE cm]
    ELSE [ram |-> rlm, cleanup |-> cm]

ramfs_demangler_on_fs_read(context, dest) ==
    LET r == ReadInto(cleanup_map, open_file_map, ram_load_map, context, dest)
    IN  /\ ram_load_map' = r.ram
        /\ cleanup_map' = r.cleanup
        /\ UNCHANGED <<open_file_map, ramfs_map, mangling_map>>

(***************************************************************************)
(* ramfs_demangler_on_fs_mount                                             *)
(***************************************************************************)
\* lines 108-118: the buffer address read from flags, as an optional
BaseOf(flags) ==
    IF flags = NoFlags THEN <<>>
    ELSE LET baseptr == str_find(flags[1], Str_base)
         IN  IF baseptr = 0 THEN <<>>
             ELSE <<strtoull(Tail_from(flags[1], baseptr + Len(Str_base)))>>

\* BaseOf of the flags in FlagsSet, parsed once
BaseOfFlagsSet == [flags \in FlagsSet |-> BaseOf(flags)]
ParsedBase(flags) ==
    IF flags \in FlagsSet THEN BaseOfFlagsSet[flags] ELSE BaseOf(flags)

\* the ramfs mount with fsroot alone as the virtual path (line 124)
MountRamfs_NoJoin(mountpoint, fsroot, flags) ==
    LET base == ParsedBase(flags)
    IN  IF base # <<>> /\ base[1] \in DOMAIN ram_load_map
        THEN LET orig_path == ram_load_map[base[1]]
                 mount_path == fsroot
             IN  /\ ramfs_map' = Put(ramfs_map, mount_path, orig_path)
                 /\ cleanup_map' =
                        IF orig_path \in DOMAIN cleanup_map
                        THEN [cleanup_map EXCEPT
                                 ![orig_path].ramfs_path = <<mount_path>>]
                        ELSE cleanup_map
                 /\ UNCHANGED <<open_file_map, ram_load_map, mangling_map>>
        ELSE UNCHANGED tables

MountRamfs(mountpoint, fsroot, flags) ==
    LET base == ParsedBase(flags)
    IN  IF base # <<>> /\ base[1] \in DOMAIN ram_load_map
        THEN LET orig_path == ram_load_map[base[1]]
                 mount_path == mountpoint \o Str_slash \o fsroot
             IN  /\ ramfs_map' = Put(ramfs_map, mount_path, orig_path)
                 /\ cleanup_map' =
                        IF orig_path \in DOMAIN cleanup_map
                        THEN [cleanup_map EXCEPT
                                 ![orig_path].ramfs_path = <<mount_path>>]
                        ELSE cleanup_map
                 /\ UNCHANGED <<open_file_map, ram_load_map, mangling_map>>
        ELSE UNCHANGED tables

\* the imagefs mount without the fallback of lines 145-148
MountImagefs_NoFallback(mountpoint, fsroot) ==
    LET find == longest_prefix(ramfs_map, fsroot)
    IN  IF find # <<>>
        THEN LET orig_path == ramfs_map[find[1]]
             IN  /\ mangling_map' = Put(mangling_map, mountpoint, orig_path)
                 /\ cleanup_map' =
                        IF orig_path \in DOMAIN cleanup_map
                        THEN [cleanup_map EXCEPT
                                 ![orig_path].mounted_path = <<mountpoint>>]
                        ELSE cleanup_map
                 /\ UNCHANGED <<open_file_map, ram_load_map, ramfs_map>>
        ELSE UNCHANGED tables

\* the imagefs mount that tries the fallback of lines 145-148 first
MountImagefs_FallbackFirst(mountpoint, fsroot) ==
    LET find == longest_prefix(ramfs_map, fsroot)
    IN  IF string_ends_with(fsroot, Str_ifs)
        THEN /\ mangling_map' = Put(mangling_map, mountpoint, fsroot)
             /\ UNCHANGED <<cleanup_map, open_file_map, ram_load_map, ramfs_map>>
        ELSE IF find # <<>>
        THEN LET orig_path == ramfs_map[find[1]]
             IN  /\ mangling_map' = Put(mangling_map, mountpoint, orig_path)
                 /\ cleanup_map' =
                        IF orig_path \in DOMAIN cleanup_map
                        THEN [cleanup_map EXCEPT
                                 ![orig_path].mounted_path = <<mountpoint>>]
                        ELSE cleanup_map
                 /\ UNCHANGED <<open_file_map, ram_load_map, ramfs_map>>
        ELSE UNCHANGED tables

MountImagefs(mountpoint, fsroot) ==
    LET find == longest_prefix(ramfs_map, fsroot)
    IN  IF find # <<>>
        THEN LET orig_path == ramfs_map[find[1]]
             IN  /\ mangling_map' = Put(mangling_map, mountpoint, orig_path)
                 /\ cleanup_map' =
                        IF orig_path \in DOMAIN cleanup_map
                        THEN [cleanup_map EXCEPT
                                 ![orig_path].mounted_path = <<mountpoint>>]
                        ELSE cleanup_map
                 /\ UNCHANGED <<open_file_map, ram_load_map, ramfs_map>>
        ELSE IF string_ends_with(fsroot, Str_ifs)
        THEN /\ mangling_map' = Put(mangling_map, mountpoint, fsroot)
             /\ UNCHANGED <<cleanup_map, open_file_map, ram_load_map, ramfs_map>>
        ELSE UNCHANGED tables

ramfs_demangler_on_fs_mount(mountpoint, fsroot, fstype, flags) ==
    IF fstype = "ramfs" THEN MountRamfs(mountpoint, fsroot, flags)
    ELSE IF fstype = "imagefs" THEN MountImagefs(mountpoint, fsroot)
    ELSE UNCHANGED tables

(***************************************************************************)
(* ramfs_demangler_demangle_if_possible                                    *)
(***************************************************************************)
\* demangling through a key that occurs anywhere in the path
DemangleIn_AnyOccurrence(map, path) ==
    LET found == {k \in DOMAIN map : str_find(path, k) # 0}
    IN  IF found # {}
        THEN LET key == CHOOSE k \in found : \A j \in found : Len(j) <= Len(k)
             IN  string_replace(path, key, map[key])
        ELSE path

\* demangling through the shortest key that is a prefix of the path
DemangleIn_ShortestPrefix(map, path) ==
    LET keys == {k \in DOMAIN map : IsPrefix(k, path)}
    IN  IF keys # {}
        THEN LET key == CHOOSE k \in keys : \A j \in keys : Len(k) <= Len(j)
             IN  string_replace(path, key, map[key])
        ELSE path

\* the value raw_path holds on return, over a given mangling map
DemangleIn(map, path) ==
    LET search == longest_prefix(map, path)
    IN  IF search # <<>>
        THEN string_replace(path, search[1], map[search[1]])
        ELSE path

demangle(path) == DemangleIn(mangling_map, path)

ramfs_demangler_demangle_if_possible(path) ==
    /\ raw_path' = demangle(path)
    /\ UNCHANGED tables

(***************************************************************************)
(* The record of the latest events: chain.stage is n when the latest n     *)
(* table events are the first n of                                         *)
(*   on_open(P, h); on_read(h, b); on_mount(m1, r1, "ramfs", base=b);      *)
(*   on_mount(m2, m1/r1, "imagefs", NULL)                                  *)
(* and 5 when the completed chain was followed by an accepted              *)
(* on_open(P, h'), which also starts the next chain.  Only the inputs the  *)
(* rest of the chain depends on are kept.  Queries leave it alone.         *)
(* At stage 0, chain.handle is the valid handle of the latest on_open if   *)
(* that call was ignored for its path and only on_read and on_mount calls  *)
(* followed it, and 0 otherwise.                                           *)
(***************************************************************************)
ChainAfterOpen(norm_path, open_result) ==
    IF ~OpenAccepted(norm_path, open_result)
    THEN IF open_result >= 0
         THEN [NoChain EXCEPT !.handle = open_result]
         ELSE NoChain
    ELSE IF chain.stage = 4 /\ chain.path = norm_path
    THEN [chain EXCEPT !.stage = 5, !.handle = open_result]
    ELSE [NoChain EXCEPT !.stage = 1, !.path = norm_path, !.handle = open_result]

ChainAfterRead(context, dest) ==
    IF chain.stage \in {1, 5} /\ chain.handle = context
    THEN [NoChain EXCEPT !.stage = 2, !.path = chain.path, !.buffer = dest]
    ELSE IF chain.stage = 0 THEN chain
    ELSE NoChain

ChainAfterMount(mountpoint, fsroot, fstype, flags) ==
    IF /\ chain.stage = 2
       /\ fstype = "ramfs"
       /\ BaseOf(flags) = <<chain.buffer>>
    THEN [NoChain EXCEPT !.stage = 3, !.path = chain.path,
                         !.ramfs_path = mountpoint \o Str_slash \o fsroot]
    ELSE IF /\ chain.stage = 3
            /\ fstype = "imagefs"
            /\ flags = NoFlags
            /\ fsroot = chain.ramfs_path
    THEN [chain EXCEPT !.stage = 4, !.mounted_path = mountpoint]
    ELSE IF chain.stage = 0 THEN chain
    ELSE NoChain

(***************************************************************************)
(* The events.                                                             *)
(***************************************************************************)
\* one more call of the hook layer; the calls are synchronous, so none
\* comes while a demangle call holds its argument
Observed ==
    /\ raw_path = <<>>
    /\ nevents < MaxEvents
    /\ nevents' = nevents + 1
    /\ UNCHANGED <<raw_path, engine>>

Open ==
    \E norm_path \in OpenPaths, open_result \in Handles :
        /\ ramfs_demangler_on_fs_open(norm_path, open_result)
        /\ chain' = ChainAfterOpen(norm_path, open_result)
        /\ Observed

Read ==
    \E context \in Handles, dest \in Buffers :
        /\ ramfs_demangler_on_fs_read(context, dest)
        /\ chain' = ChainAfterRead(context, dest)
        /\ Observed

Mount ==
    \E c \in MountCalls :
        /\ ramfs_demangler_on_fs_mount(c[1], c[2], c[3], c[4])
        /\ chain' = ChainAfterMount(c[1], c[2], c[3], c[4])
        /\ Observed

Demangle ==
    \E path \in Queries :
        /\ raw_path = <<>>
        /\ ramfs_demangler_demangle_if_possible(path)
        /\ UNCHANGED <<chain, nevents, engine>>

\* the caller of demangle_if_possible takes the result and drops the string
DemangleReturn ==
    /\ raw_path # <<>>
    /\ raw_path' = <<>>
    /\ UNCHANGED tables
    /\ UNCHANGED <<chain, nevents, engine>>

Next == Open \/ Read \/ Mount \/ Demangle \/ DemangleReturn

Spec == Init /\ [][Next]_vars

(***************************************************************************)
(* The engine of the file header (lines 12-19): each archive path is       *)
(* loaded again and again by avs_fs_open, one avs_fs_read of the whole     *)
(* file into a buffer just allocated, a ramfs mount on that buffer and an  *)
(* imagefs mount on the ramfs path, every load with a handle, a buffer     *)
(* and mountpoints never used before.  The loads of different paths        *)
(* interleave.                                                             *)
(***************************************************************************)
FreshHandle == engine.fresh
FreshBuffer == 16 * engine.fresh
FreshRamMountPoint == <<"m">> \o Digits(engine.fresh, 10)
FreshImageMountPoint == <<"v">> \o Digits(engine.fresh, 10)

EngineStep(p, step) ==
    [engine EXCEPT !.step[p] = step, !.fresh = engine.fresh + 1]

(* The engine names a file in whatever case the game asked for; the hook   *)
(* layer lower-cases the name before it reaches the demangler, whose       *)
(* parameter is therefore called norm_path (line 58).                      *)
LowerChars == <<"a", "b", "f", "i", "s">>
UpperChars == <<"A", "B", "F", "I", "S">>
LetterIndex(cs, c) == CHOOSE i \in 1..Len(cs) : cs[i] = c
tolower(c) ==
    IF \E i \in 1..Len(UpperChars) : UpperChars[i] = c
    THEN LowerChars[LetterIndex(UpperChars, c)] ELSE c
toupper(c) ==
    IF \E i \in 1..Len(LowerChars) : LowerChars[i] = c
    THEN UpperChars[LetterIndex(LowerChars, c)] ELSE c

\* a normalisation that leaves the case as the engine gave it
str_tolower_KeepCase(str) == str
str_tolower(str) == [i \in 1..Len(str) |-> tolower(str[i])]

\* the spellings of archive path p the engine may use: p itself, p in
\* capitals, and p with only its extension in capitals
Spellings(p) ==
    {p,
     [i \in 1..Len(p) |-> toupper(p[i])],
     [i \in 1..Len(p) |->
         IF i > Len(p) - Len(Str_ifs) THEN toupper(p[i]) ELSE p[i]]}

notify_open(path, handle) ==
    /\ ramfs_demangler_on_fs_open(str_tolower(path), handle)
    /\ chain' = ChainAfterOpen(str_tolower(path), handle)

LoadOpen(p) ==
    /\ engine.step[p] \in {0, 4}
    /\ engine.loads[p] < MaxLifecycles
    /\ \E path \in Spellings(p) :
          /\ notify_open(path, FreshHandle)
          /\ engine' = [EngineStep(p, 1) EXCEPT !.handle[p] = FreshHandle,
                                                !.spelling = path]
    /\ UNCHANGED <<raw_path, nevents>>

LoadRead(p) ==
    /\ engine.step[p] = 1
    /\ ramfs_demangler_on_fs_read(engine.handle[p], FreshBuffer)
    /\ chain' = ChainAfterRead(engine.handle[p], FreshBuffer)
    /\ engine' = [EngineStep(p, 2) EXCEPT !.buffer[p] = FreshBuffer]
    /\ UNCHANGED <<raw_path, nevents>>

LoadRamfs(p) ==
    /\ engine.step[p] = 2
    /\ ramfs_demangler_on_fs_mount(FreshRamMountPoint, <<"r">>, "ramfs",
                                   <<FlagsHex(engine.buffer[p])>>)
    /\ chain' = ChainAfterMount(FreshRamMountPoint, <<"r">>, "ramfs",
                                <<FlagsHex(engine.buffer[p])>>)
    /\ engine' = [EngineStep(p, 3) EXCEPT
                     !.ramfs_path[p] = FreshRamMountPoint \o Str_slash \o <<"r">>]
    /\ UNCHANGED <<raw_path, nevents>>

LoadImagefs(p) ==
    /\ engine.step[p] = 3
    /\ ramfs_demangler_on_fs_mount(FreshImageMountPoint, engine.ramfs_path[p],
                                   "imagefs", NoFlags)
    /\ chain' = ChainAfterMount(FreshImageMountPoint, engine.ramfs_path[p],
                                "imagefs", NoFlags)
    /\ engine' = [EngineStep(p, 4) EXCEPT !.loads[p] = engine.loads[p] + 1]
    /\ UNCHANGED <<raw_path, nevents>>

LoadNext ==
    \E p \in ArchivePaths :
        LoadOpen(p) \/ LoadRead(p) \/ LoadRamfs(p) \/ LoadImagefs(p)

SpecLifecycle == Init /\ [][LoadNext]_vars

(***************************************************************************)
(* Properties.                                                             *)
(***************************************************************************)
\* the number of entries of map m whose value is path
Count(m, path) == Cardinality({k \in DOMAIN m : m[k] = path})

\* the keys of map m that are prefixes of x
PrefixKeys(m, x) == {k \in DOMAIN m : IsPrefix(k, x)}

\* k is the longest key of map m that is a prefix of x
IsLongestPrefixKey(m, k, x) ==
    /\ k \in PrefixKeys(m, x)
    /\ \A j \in PrefixKeys(m, x) : Len(j) <= Len(k)

\* C1: right after the chain on_open(P, h); on_read(h, b);
\* on_mount(m1, r1, "ramfs", base=b); on_mount(m2, m1/r1, "imagefs", NULL),
\* and until the next open, read or mount, the Mangling Map maps m2 to P
\* and demangle(m2 + s) is P + s for every suffix s for which no longer
\* Mangling Map key is a prefix of m2 + s.
C1_ChainResolution ==
    chain.stage = 4 =>
        /\ chain.mounted_path \in DOMAIN mangling_map
        /\ mangling_map[chain.mounted_path] = chain.path
        /\ \A s \in Suffixes :
               (\A j \in PrefixKeys(mangling_map, chain.mounted_path \o s) :
                    Len(j) <= Len(chain.mounted_path))
                   => demangle(chain.mounted_path \o s) = chain.path \o s

\* the chain completed at mountpoint "v", and the query "vw/f" was resolved
\* through it
C1_Witness ==
    /\ chain.stage = 4
    /\ chain.mounted_path = <<"v">>
    /\ raw_path = chain.path \o <<"w", "/", "f">>

\* C2 as stated: when P completed the chain at mountpoint m2 and is opened
\* again, its old Ramfs Map and Mangling Map entries are gone and demangle
\* returns every path that starts with m2 unchanged.
C2_Original ==
    chain.stage = 5 =>
        /\ chain.ramfs_path \notin DOMAIN ramfs_map
        /\ chain.mounted_path \notin DOMAIN mangling_map
        /\ \A s \in Suffixes :
               demangle(chain.mounted_path \o s) = chain.mounted_path \o s

\* C2 as amended: when P completed the chain at mountpoint m2 and is opened
\* again, its old Ramfs Map and Mangling Map entries are gone, no entry of
\* either map under those keys resolves to P, and demangle returns a path
\* that starts with m2 unchanged provided none of the remaining Mangling
\* Map keys is a prefix of it.
C2_Retraction ==
    chain.stage = 5 =>
        /\ chain.ramfs_path \notin DOMAIN ramfs_map
        /\ chain.mounted_path \notin DOMAIN mangling_map
        /\ \A s \in Suffixes :
               PrefixKeys(mangling_map, chain.mounted_path \o s) = {}
                   => demangle(chain.mounted_path \o s) = chain.mounted_path \o s

\* the chain completed at mountpoint "vw", P was opened again, and the query
\* "vw/f" came back unchanged
C2_Witness ==
    /\ chain.stage = 5
    /\ chain.mounted_path = <<"v", "w">>
    /\ raw_path = <<"v", "w", "/", "f">>

\* C3 as stated: right after an accepted on_open(P, h) the only entry with
\* value P in the Open, Buffer, Ramfs and Mangling maps is h -> P of the
\* Open Map.
C3_Original ==
    chain.stage \in {1, 5} =>
        /\ {k \in DOMAIN open_file_map : open_file_map[k] = chain.path}
               = {chain.handle}
        /\ Count(ram_load_map, chain.path) = 0
        /\ Count(ramfs_map, chain.path) = 0
        /\ Count(mangling_map, chain.path) = 0

\* C4 as stated: in every reachable state each of the four maps holds at
\* most one entry whose value is a given original path of the ledger.
C4_Original ==
    \A path \in DOMAIN cleanup_map :
        /\ Count(open_file_map, path) <= 1
        /\ Count(ram_load_map, path) <= 1
        /\ Count(ramfs_map, path) <= 1
        /\ Count(mangling_map, path) <= 1

\* C5: whenever a path has completed a load of SpecLifecycle, whichever
\* load it is, the ledger holds a record for it and each of the four maps
\* holds exactly one entry whose value is that path.
C5_LifecyclesDoNotGrow ==
    \A p \in ArchivePaths :
        engine.step[p] = 4 =>
            /\ p \in DOMAIN cleanup_map
            /\ Count(open_file_map, p) = 1
            /\ Count(ram_load_map, p) = 1
            /\ Count(ramfs_map, p) = 1
            /\ Count(mangling_map, p) = 1

\* both paths have completed MaxLifecycles loads
C5_Witness ==
    \A p \in ArchivePaths :
        engine.step[p] = 4 /\ engine.loads[p] = MaxLifecycles

\* C6: right after an accepted on_open(P, h) the Cleanup Record of P is
\* {handle = h, buffer = none, ramfs_path = none, mounted_path = none} and
\* the Open Map maps h to P, whatever P's previous lifecycle had reached.
C6_OpenPostState ==
    chain.stage \in {1, 5} =>
        /\ chain.path \in DOMAIN cleanup_map
        /\ cleanup_map[chain.path] =
               [handle |-> chain.handle, buffer |-> 0,
                ramfs_path |-> <<>>, mounted_path |-> <<>>]
        /\ chain.handle \in DOMAIN open_file_map
        /\ open_file_map[chain.handle] = chain.path

\* P was opened again right after it had completed the whole chain
C6_Witness ==
    /\ chain.stage = 5
    /\ nevents = 5

\* a step that is the imagefs mount c taking the fallback
FallbackMount(c) ==
    /\ c[3] = "imagefs"
    /\ c[4] = NoFlags
    /\ PrefixKeys(ramfs_map, c[2]) = {}
    /\ string_ends_with(c[2], Str_ifs)
    /\ ramfs_demangler_on_fs_mount(c[1], c[2], c[3], c[4])
    /\ chain' = ChainAfterMount(c[1], c[2], c[3], c[4])
    /\ Observed

\* C7 as stated: an imagefs mount of fsroot r at m, where r has no prefix
\* in the Ramfs Map and ends in the archive extension, inserts m -> r into
\* the Mangling Map, and demangle(m + s) is then r + s for every suffix s.
C7_Original ==
    [][\A c \in MountCalls :
          FallbackMount(c) =>
              /\ c[1] \in DOMAIN mangling_map'
              /\ mangling_map'[c[1]] = c[2]
              /\ \A s \in Suffixes :
                     DemangleIn(mangling_map', c[1] \o s) = c[2] \o s]_vars

\* C7 as amended: the fallback mount inserts m -> r into the Mangling Map,
\* and demangle(m + s) is then r + s for every suffix s for which m is the
\* longest Mangling Map key that is a prefix of m + s.
C7_FallbackMount ==
    [][\A c \in MountCalls :
          FallbackMount(c) =>
              /\ c[1] \in DOMAIN mangling_map'
              /\ mangling_map'[c[1]] = c[2]
              /\ \A s \in Suffixes :
                     IsLongestPrefixKey(mangling_map', c[1], c[1] \o s)
                         => DemangleIn(mangling_map', c[1] \o s) = c[2] \o s]_vars

\* nothing was ever opened, "v" is mounted by the fallback, and the query
\* "vw/f" was resolved through it
C7_Witness ==
    /\ DOMAIN cleanup_map = {}
    /\ DOMAIN mangling_map = {<<"v">>}
    /\ mangling_map[<<"v">>] = FallbackRoot
    /\ raw_path = FallbackRoot \o <<"w", "/", "f">>

\* C8 as stated: after on_open of a non-archive path with handle h2, and
\* any on_read and on_mount calls that follow, no table holds an entry
\* keyed by h2 and no record of the ledger carries h2.
C8_Original ==
    (chain.stage = 0 /\ chain.handle # 0) =>
        /\ chain.handle \notin DOMAIN open_file_map
        /\ \A path \in DOMAIN cleanup_map :
               cleanup_map[path].handle # chain.handle

Chars ==
    {DigitChars[i] : i \in 1..16}
        \cup {".", "/", "=", ",", "i", "m", "o", "n", "q", "r", "s", "u",
              "v", "w", "x"}

\* C9: a demangle call changes none of the five tables, leaves a string in
\* raw_path, and leaves x itself when no Mangling Map key is a prefix of x.
C9_DemangleReadOnly ==
    [][\A x \in Queries :
          (nevents' = nevents /\ ramfs_demangler_demangle_if_possible(x)) =>
              /\ UNCHANGED tables
              /\ raw_path' \in Seq(Chars)
              /\ PrefixKeys(mangling_map, x) = {} => raw_path' = x]_vars

\* the query "u/v" came back unchanged while "v" is a Mangling Map key
C9_Witness ==
    /\ <<"v">> \in DOMAIN mangling_map
    /\ raw_path = <<"u", "/", "v">>

\* C10: when some Mangling Map key is a prefix of x, demangle(x) is
\* value(k) + suffix for the longest such key k, where suffix is x without
\* its leading k.
C10_LongestPrefixOnly ==
    \A x \in AllQueries :
        PrefixKeys(mangling_map, x) # {} =>
            \E k \in PrefixKeys(mangling_map, x) :
                /\ IsLongestPrefixKey(mangling_map, k, x)
                /\ demangle(x) =
                       mangling_map[k] \o SubSeq(x, Len(k) + 1, Len(x))

\* "v" and "vw" are keys with different values, and the query "vw/f" was
\* resolved through "vw"
C10_Witness ==
    /\ DOMAIN mangling_map = {<<"v">>, <<"v", "w">>}
    /\ mangling_map[<<"v">>] # mangling_map[<<"v", "w">>]
    /\ raw_path = mangling_map[<<"v", "w">>] \o <<"/", "f">>

\* C11: an archive path the engine opens in capitals or in mixed case is
\* tracked under its lower-case spelling, like the lower-case spelling
\* itself: the ledger is keyed by lower-case paths only, an open load has its
\* handle in the Open Map under the lower-case path, and when the load has
\* completed, a demangle query on its lower-case mountpoint resolves to the
\* lower-case path.
C11_CaseInsensitive ==
    /\ \A k \in DOMAIN cleanup_map : k \in ArchivePaths
    /\ \A p \in ArchivePaths :
          /\ engine.step[p] \in 1..3 =>
                /\ engine.handle[p] \in DOMAIN open_file_map
                /\ open_file_map[engine.handle[p]] = p
                /\ p \in DOMAIN cleanup_map
                /\ cleanup_map[p].handle = engine.handle[p]
          /\ engine.step[p] = 4 =>
                /\ p \in DOMAIN cleanup_map
                /\ cleanup_map[p].mounted_path # nullopt
                /\ LET m2 == cleanup_map[p].mounted_path[1]
                   IN  /\ m2 \in DOMAIN mangling_map
                       /\ \A s \in Suffixes :
                              IsLongestPrefixKey(mangling_map, m2, m2 \o s)
                                  => demangle(m2 \o s) = p \o s

\* a load of "a.ifs" that the engine opened as "A.IFS" has completed, and no
\* other open came after it
C11_Witness ==
    /\ engine.step[PathA] = 4
    /\ engine.spelling = <<"A", ".", "I", "F", "S">>
    /\ PathA \in DOMAIN cleanup_map
    /\ cleanup_map[PathA].mounted_path # nullopt

\* the mount call c is one the demangler has no use for: a ramfs mount
\* without flags, without "base=" in them or with a base address that is no
\* Buffer Map key, an imagefs mount whose fsroot has no Ramfs Map key as a
\* prefix and does not end in ".ifs", or a mount of another fstype
NotApplicableMount(c) ==
    \/ /\ c[3] = "ramfs"
       /\ \/ c[4] = NoFlags
          \/ str_find(c[4][1], Str_base) = 0
          \/ ParsedBase(c[4])[1] \notin DOMAIN ram_load_map
    \/ /\ c[3] = "imagefs"
       /\ PrefixKeys(ramfs_map, c[2]) = {}
       /\ ~string_ends_with(c[2], Str_ifs)
    \/ c[3] \notin {"ramfs", "imagefs"}

\* C12: an open with a failed handle or of a path that is no archive, a read
\* on a handle that is no Open Map key, and a mount the demangler has no use
\* for leave the ledger and the four maps as they were: a step that changes
\* one of the five tables is none of these calls.
C12_NotApplicableNoOp ==
    [][~(UNCHANGED tables) =>
          /\ \A norm_path \in OpenPaths, open_result \in Handles :
                ~(/\ open_result < 0 \/ ~string_ends_with(norm_path, Str_ifs)
                  /\ ramfs_demangler_on_fs_open(norm_path, open_result)
                  /\ chain' = ChainAfterOpen(norm_path, open_result)
                  /\ Observed)
          /\ \A context \in Handles, dest \in Buffers :
                ~(/\ context \notin DOMAIN open_file_map
                  /\ ramfs_demangler_on_fs_read(context, dest)
                  /\ chain' = ChainAfterRead(context, dest)
                  /\ Observed)
          /\ \A c \in MountCalls :
                ~(/\ NotApplicableMount(c)
                  /\ ramfs_demangler_on_fs_mount(c[1], c[2], c[3], c[4])
                  /\ chain' = ChainAfterMount(c[1], c[2], c[3], c[4])
                  /\ Observed)]_vars

\* three events have happened, the last open among them was of a path that
\* is no archive, and every table is still empty
C12_Witness ==
    /\ nevents >= 3
    /\ chain.stage = 0
    /\ chain.handle > 0
    /\ cleanup_map = EmptyMap
    /\ open_file_map = EmptyMap
    /\ ram_load_map = EmptyMap
    /\ ramfs_map = EmptyMap
    /\ mangling_map = EmptyMap

\* C13: in every state, on_read(h, b) performed twice in a row leaves the
\* ledger and the four maps as on_read(h, b) performed once leaves them
\* (the read touches the Buffer Map and the ledger only).
C13_ReadIdempotent ==
    \A context \in Handles, dest \in Buffers :
        LET once == ReadInto(cleanup_map, open_file_map, ram_load_map,
                             context, dest)
            twice == ReadInto(once.cleanup, open_file_map, once.ram,
                              context, dest)
        IN  twice = once

\* a read of a tracked handle into buffer 16 has been recorded, and the
\* same read again finds the buffer already in the record
C13_Witness ==
    \E context \in DOMAIN open_file_map :
        /\ 16 \in DOMAIN ram_load_map
        /\ ram_load_map[16] = open_file_map[context]
        /\ open_file_map[context] \in DOMAIN cleanup_map
        /\ cleanup_map[open_file_map[context]].buffer = 16
        /\ nevents >= 3

\* the entries of map m whose value is not path are in map n as they are
\* in m, but for the keys in except
KeepsOthers(m, n, path, except) ==
    \A k \in DOMAIN m \ except :
        m[k] # path => (k \in DOMAIN n /\ n[k] = m[k])

\* C14 as stated: an accepted on_open(P, h) leaves every entry of the four
\* maps whose value is another path Q, and the record of every other path
\* Q, as they were, but for the Open Map entry keyed by h.
C14_Original ==
    [][\A norm_path \in OpenPaths, open_result \in Handles :
          (/\ open_result >= 0
           /\ string_ends_with(norm_path, Str_ifs)
           /\ ramfs_demangler_on_fs_open(norm_path, open_result)
           /\ chain' = ChainAfterOpen(norm_path, open_result)
           /\ Observed)
              => /\ KeepsOthers(open_file_map, open_file_map', norm_path,
                                {open_result})
                 /\ KeepsOthers(ram_load_map, ram_load_map', norm_path, {})
                 /\ KeepsOthers(ramfs_map, ramfs_map', norm_path, {})
                 /\ KeepsOthers(mangling_map, mangling_map', norm_path, {})
                 /\ \A q \in DOMAIN cleanup_map \ {norm_path} :
                        /\ q \in DOMAIN cleanup_map'
                        /\ cleanup_map'[q] = cleanup_map[q]]_vars

\* the step is the accepted call on_open(norm_path, open_result)
AcceptedOpen(norm_path, open_result) ==
    /\ open_result >= 0
    /\ string_ends_with(norm_path, Str_ifs)
    /\ ramfs_demangler_on_fs_open(norm_path, open_result)
    /\ chain' = ChainAfterOpen(norm_path, open_result)
    /\ Observed

\* C15: a handle superseded by a re-open of its path is dead.  Step by step:
\* an accepted on_open(P, h) writes h into P's record, and nothing but an
\* accepted on_open of P changes the handle of P's record; an accepted
\* on_open(P, h2) made when P's record names another handle h1 leaves h1
\* out of the Open Map; a handle that is no Open Map key becomes one only
\* by an accepted on_open with that handle; and on_read with a handle that
\* is no Open Map key changes no table, whatever the buffer.
C15_SupersededHandleDead ==
    [][/\ \A norm_path \in ArchivePaths, open_result \in Handles :
            AcceptedOpen(norm_path, open_result) =>
                /\ cleanup_map'[norm_path].handle = open_result
                /\ open_file_map'[open_result] = norm_path
                /\ \A h1 \in Handles \ {open_result} :
                       (/\ norm_path \in DOMAIN cleanup_map
                        /\ cleanup_map[norm_path].handle = h1)
                           => h1 \notin DOMAIN open_file_map'
       /\ \A p \in DOMAIN cleanup_map :
            (p \in DOMAIN cleanup_map' /\
                cleanup_map'[p].handle # cleanup_map[p].handle)
                => \E open_result \in Handles : AcceptedOpen(p, open_result)
       /\ \A h \in DOMAIN open_file_map' \ DOMAIN open_file_map :
            \E norm_path \in ArchivePaths : AcceptedOpen(norm_path, h)
       /\ \A context \in Handles \ DOMAIN open_file_map, dest \in Buffers :
            (/\ ramfs_demangler_on_fs_read(context, dest)
             /\ chain' = ChainAfterRead(context, dest)
             /\ Observed)
                => UNCHANGED tables]_vars

\* "b.ifs" and then "a.ifs" were opened with handle 1, "a.ifs" was opened
\* again with handle 2 (nothing else takes 1 -> "a.ifs" out of the Open
\* Map while the record of "b.ifs" names handle 1), a fourth event
\* followed, and no buffer is attributed to any path
C15_Witness ==
    /\ nevents >= 4
    /\ DOMAIN cleanup_map = {PathA, PathB}
    /\ cleanup_map[PathB].handle = 1
    /\ cleanup_map[PathA].handle = 2
    /\ DOMAIN open_file_map = {2}
    /\ open_file_map[2] = PathA
    /\ ram_load_map = EmptyMap

C17_OpenAgreesWithLedger ==
    /\ \A h \in DOMAIN open_file_map :
          /\ open_file_map[h] \in DOMAIN cleanup_map
          /\ cleanup_map[open_file_map[h]].handle = h
    /\ \A h1, h2 \in DOMAIN open_file_map :
          open_file_map[h1] = open_file_map[h2] => h1 = h2

\* both handles are Open Map keys, and a read was recorded for each of the
\* two paths after its last open
C17_Witness ==
    /\ DOMAIN open_file_map = {1, 2}
    /\ open_file_map[1] # open_file_map[2]
    /\ \A h \in DOMAIN open_file_map :
          cleanup_map[open_file_map[h]].buffer # NULL

\* the values of map m
Values(m) == {m[k] : k \in DOMAIN m}

\* the fsroots an imagefs mount may store as they are (lines 145-148)
FallbackRoots ==
    {c[2] : c \in {d \in MountCalls :
                     d[3] = "imagefs" /\ string_ends_with(d[2], Str_ifs)}}

\* C18: every value of the Open Map, the Buffer Map and the Ramfs Map is a
\* ledger key; every value of the Mangling Map is a ledger key or an fsroot
\* stored by a fallback mount; and every ledger key and every value of the
\* four maps ends in ".ifs".
C18_Provenance ==
    /\ Values(open_file_map) \subseteq DOMAIN cleanup_map
    /\ Values(ram_load_map) \subseteq DOMAIN cleanup_map
    /\ Values(ramfs_map) \subseteq DOMAIN cleanup_map
    /\ Values(mangling_map) \subseteq DOMAIN cleanup_map \cup FallbackRoots
    /\ \A path \in DOMAIN cleanup_map \cup Values(open_file_map)
                    \cup Values(ram_load_map) \cup Values(ramfs_map)
                    \cup Values(mangling_map) :
          string_ends_with(path, Str_ifs)

\* each of the four maps has an entry, and the Mangling Map holds both a
\* ledger key and an fsroot stored by a fallback mount
C18_Witness ==
    /\ open_file_map # EmptyMap
    /\ ram_load_map # EmptyMap
    /\ ramfs_map # EmptyMap
    /\ Values(mangling_map) \cap DOMAIN cleanup_map # {}
    /\ Values(mangling_map) \ DOMAIN cleanup_map # {}

\* C19: no step takes a key out of the ledger, an accepted on_open(P, h)
\* leaves P a ledger key, and a key enters the ledger only by an accepted
\* on_open of it: on_read and on_mount neither add nor remove a ledger key.
C19_LedgerPersists ==
    [][/\ DOMAIN cleanup_map \subseteq DOMAIN cleanup_map'
       /\ \A norm_path \in ArchivePaths, open_result \in Handles :
            AcceptedOpen(norm_path, open_result)
                => norm_path \in DOMAIN cleanup_map'
       /\ \A p \in DOMAIN cleanup_map' \ DOMAIN cleanup_map :
            \E open_result \in Handles : AcceptedOpen(p, open_result)]_vars

\* the ledger holds both paths after the last event the bound allows, one
\* of them with a mounted path from a chain completed earlier
C19_Witness ==
    /\ nevents = MaxEvents
    /\ DOMAIN cleanup_map = {PathA, PathB}
    /\ cleanup_map[PathA].mounted_path # nullopt

====
